---------------------------- MODULE Spec2Model ----------------------------
(***************************************************************************)
(* A model of sync_imgs.py: the SM.MS upload client, the path cache        *)
(* (config.json), the image scanner and the markdown rewriter.             *)
(*                                                                         *)
(* Text (file names, cache keys, URLs, document lines, the JSON text of    *)
(* the cache file) is a sequence of one-character strings, so that         *)
(* substring search, replacement, escaping and parsing are computed, not   *)
(* assumed.                                                                *)
(***************************************************************************)
EXTENDS Integers, Sequences, FiniteSets, TLC

VARIABLES
    pc,          \* where the process (or the caller of the API) stands
    err,         \* the error that ended the run, "none" while it runs
    sep,         \* os.sep of the platform: "/" or "\\"
    imgDir,      \* self.img_dir, absolute: a sequence of path components
    tree,        \* the image tree: the files os.walk(self.img_dir) yields
    todo,        \* files of the current walk not yet visited
    cfgFile,     \* the cache file on disk: NoFile or its text
    config,      \* self.config: a sequence of <<key, url>> (a dict keeps order)
    docs,        \* the files under self.md_dir: sequence of [name, content]
    idx,         \* replace_all_md_images: index of the next md file
    token,       \* SMMSClient.token, NoToken before authentication
    resp,        \* the last response of the remote service
    result,      \* what the last upload() call returned or raised
    auths,       \* POST /token requests sent by this process
    uploads,     \* POST /upload requests sent by the current sync_images call
    run,         \* number of processes (runs of the command) started so far
    syncs,       \* number of sync_images calls that completed
    notices,     \* documents for which "Updated:" was printed
    \* history variables, read by the properties only
    fileAtStart, \* the cache file when the current process started
    docsAtStart, \* the documents when the current process started
    scanned,     \* keys of the cache file at first, and keys uploaded by
                 \* sync_images calls whose walk completed
    pending,     \* keys uploaded by the current sync_images call
    prevCache,   \* self.config after the previous completed sync_images
    lastCache,   \* self.config after the latest completed sync_images
    saved        \* the mapping handed to the latest save_config

vars == <<pc, err, sep, imgDir, tree, todo, cfgFile, config, docs, idx, token,
          resp, result, auths, uploads, run, syncs, notices, fileAtStart,
          docsAtStart, scanned, pending, prevCache, lastCache, saved>>

-----------------------------------------------------------------------------
(* Text helpers                                                            *)

\* Body with v bound to a value computed once
With(v, Body(_)) == Body(v)

\* the least element of a set of positions, 0 when it is empty
First(hits) ==
    IF hits = {} THEN 0 ELSE CHOOSE j \in hits : \A k \in hits : j <= k

\* The characters of text, flattened from a sequence of texts.
RECURSIVE Flatten(_)
Flatten(ss) == IF ss = <<>> THEN <<>> ELSE Head(ss) \o Flatten(Tail(ss))

\* str.startswith(pre)
StartsWith(s, pre) ==
    Len(pre) <= Len(s) /\ SubSeq(s, 1, Len(pre)) = pre

\* str.endswith(suf)
EndsWith(s, suf) ==
    Len(suf) <= Len(s) /\ SubSeq(s, Len(s) - Len(suf) + 1, Len(s)) = suf

\* pat occurs in s at position i
OccursAt(s, pat, i) ==
    i >= 1 /\ i + Len(pat) - 1 <= Len(s) /\ SubSeq(s, i, i + Len(pat) - 1) = pat

\* str.find(pat, i): the first position >= i where pat occurs, 0 when none
IndexFrom(s, pat, i) == First({j \in i..Len(s) : OccursAt(s, pat, j)})

\* the first position >= i holding one of the characters cs, 0 when none
IndexOfAny(s, cs, i) == First({j \in i..Len(s) : s[j] \in cs})

\* str.replace(old, new), old not empty: left to right, non-overlapping
RECURSIVE StrReplace(_, _, _)
StrReplace(s, old, new) ==
    IF s = <<>> THEN <<>>
    ELSE IF OccursAt(s, old, 1)
         THEN new \o StrReplace(SubSeq(s, Len(old) + 1, Len(s)), old, new)
         ELSE <<Head(s)>> \o StrReplace(Tail(s), old, new)

NL == "\n"

\* file.readlines(): the lines of a text, each keeping its line break
RECURSIVE ReadLines(_)
ReadLines(text) ==
    IF text = <<>> THEN <<>>
    ELSE With(IndexFrom(text, <<NL>>, 1), LAMBDA k :
             IF k = 0 THEN <<text>>
             ELSE <<SubSeq(text, 1, k)>>
                  \o ReadLines(SubSeq(text, k + 1, Len(text))))

-----------------------------------------------------------------------------
(* The cache as a dict: a sequence of <<key, value>> with distinct keys    *)

Keys(d) == {d[i][1] : i \in 1..Len(d)}

Has(d, k) == k \in Keys(d)

Get(d, k) == d[CHOOSE i \in 1..Len(d) : d[i][1] = k][2]

\* d[k] = v: a new key goes last, a known key keeps its place
Put(d, k, v) ==
    IF Has(d, k)
    THEN [i \in 1..Len(d) |-> IF d[i][1] = k THEN <<k, v>> ELSE d[i]]
    ELSE Append(d, <<k, v>>)

\* dict equality: the same items, in any order
SameDict(d, e) ==
    {d[i] : i \in 1..Len(d)} = {e[i] : i \in 1..Len(e)}

-----------------------------------------------------------------------------
(* IMGPATTERN and re.findall                                               *)

\* '.' matches anything but a line break: s[a..b] is a run of '.'
Dots(s, a, b) == \A i \in a..b : s[i] # NL

NoMatch == [ok |-> FALSE, start |-> 0, from |-> 0, to |-> 0, end |-> 0]

\* !\[.*?\]\((.*?)\) tried at position i: no match, or the match's span
\* (start..end) and its capture's (from..to). The lazy .*? stop at the
\* first "](" and at the first ")" after it.
MdMatch(s, i) ==
    IF ~OccursAt(s, <<"!", "[">>, i) THEN NoMatch
    ELSE With(IndexFrom(s, <<"]", "(">>, i + 2), LAMBDA j :
         With(IF j = 0 THEN 0 ELSE IndexFrom(s, <<")">>, j + 2), LAMBDA k :
             IF j = 0 \/ k = 0 \/ ~Dots(s, i + 2, k - 1) THEN NoMatch
             ELSE [ok |-> TRUE, start |-> i, from |-> j + 2, to |-> k - 1,
                   end |-> k]))

\* the end of the run of spaces that starts at i
RECURSIVE SkipSpaces(_, _)
SkipSpaces(s, i) ==
    IF i <= Len(s) /\ s[i] = " " THEN SkipSpaces(s, i + 1) ELSE i

QUOTES == {"'", "\""}

\* src\ *=\ *['"](.*?)['"].*?> tried with "src" at position p, for the
\* <img at position i
SrcMatch(s, i, p) ==
    IF ~OccursAt(s, <<"s", "r", "c">>, p) THEN NoMatch
    ELSE With(SkipSpaces(s, p + 3), LAMBDA q :
         With(SkipSpaces(s, q + 1), LAMBDA r :
             IF q > Len(s) \/ s[q] # "=" \/ r > Len(s) \/ s[r] \notin QUOTES
             THEN NoMatch
             ELSE With(IndexOfAny(s, QUOTES, r + 1), LAMBDA e :
                  With(IF e = 0 THEN 0 ELSE IndexFrom(s, <<">">>, e + 1), LAMBDA g :
                      IF e = 0 \/ g = 0 \/ ~Dots(s, i + 4, g - 1) THEN NoMatch
                      ELSE [ok |-> TRUE, start |-> i, from |-> r + 1,
                            to |-> e - 1, end |-> g]))))

\* <img.*?src\ *=\ *['"](.*?)['"].*?> tried at position i: the lazy .*?
\* settles on the first "src" from which the rest matches
ImgMatch(s, i) ==
    IF ~OccursAt(s, <<"<", "i", "m", "g">>, i) THEN NoMatch
    ELSE With(First({p \in (i + 4)..Len(s) : SrcMatch(s, i, p).ok}), LAMBDA p :
             IF p = 0 THEN NoMatch ELSE SrcMatch(s, i, p))

\* one alternative after the other, as the regex engine tries them
MatchAt(s, i) ==
    With(MdMatch(s, i), LAMBDA m : IF m.ok THEN m ELSE ImgMatch(s, i))

\* re.finditer(IMGPATTERN, s) from position i: the matches left to right
RECURSIVE Matches(_, _)
Matches(s, i) ==
    IF i > Len(s) THEN <<>>
    ELSE With(MatchAt(s, i), LAMBDA m :
             IF m.ok THEN <<m>> \o Matches(s, m.end + 1)
             ELSE Matches(s, i + 1))

\* the captures of the matches ms of line
Captures(line, ms) == [i \in 1..Len(ms) |-> SubSeq(line, ms[i].from, ms[i].to)]

\* re.findall(IMGPATTERN, line), flattened, empty captures dropped (line 66)
findall(line) ==
    SelectSeq(Captures(line, Matches(line, 1)), LAMBDA u : u # <<>>)

HTTP == <<"h", "t", "t", "p">>

-----------------------------------------------------------------------------
(* Document Rewriter                                                       *)

\* the loop over the urls of one line (lines 67-74): the line after the
\* replacements, whether one happened, and whether a url was missing
RECURSIVE ReplaceUrls(_, _, _, _)
ReplaceUrls(line, urls, cfg, replace) ==
    IF urls = <<>> THEN [raised |-> FALSE, line |-> line, replace |-> replace]
    ELSE IF Len(Head(urls)) # 0 /\ ~StartsWith(Head(urls), HTTP)
         THEN IF Has(cfg, Head(urls))
              THEN ReplaceUrls(StrReplace(line, Head(urls), Get(cfg, Head(urls))),
                               Tail(urls), cfg, TRUE)
              ELSE [raised |-> TRUE, line |-> line, replace |-> replace]
         ELSE ReplaceUrls(line, Tail(urls), cfg, replace)

\* the loop over the lines (lines 62-75): new_content so far
RECURSIVE ReplaceLines(_, _, _, _)
ReplaceLines(lines, cfg, new_content, replace) ==
    IF lines = <<>>
    THEN [raised |-> FALSE, new_content |-> new_content, replace |-> replace]
    ELSE With(ReplaceUrls(Head(lines), findall(Head(lines)), cfg, replace),
              LAMBDA r :
                 IF r.raised
                 THEN [raised |-> TRUE, new_content |-> new_content,
                       replace |-> r.replace]
                 ELSE ReplaceLines(Tail(lines), cfg, new_content \o r.line,
                                   r.replace))

\* a rewriter that opens the file for writing before it has read every
\* reference: a missing url leaves the lines processed so far in the file
replace_img_urls_in_md_early_write(text, cfg) ==
    With(ReplaceLines(ReadLines(text), cfg, <<>>, FALSE), LAMBDA r :
        [raised |-> r.raised, file |-> r.new_content,
         replace |-> r.replace /\ ~r.raised])

\* replace_img_urls_in_md on a file holding text: whether it raised
\* ValueError, the file afterwards, and whether "Updated:" was printed
replace_img_urls_in_md(text, cfg) ==
    With(ReplaceLines(ReadLines(text), cfg, <<>>, FALSE), LAMBDA r :
        [raised |-> r.raised,
         file |-> IF r.raised THEN text ELSE r.new_content,
         replace |-> r.replace /\ ~r.raised])

\* str.lower() on the letters file names are made of here
Lower(c) ==
    CASE c = "P" -> "p" [] c = "N" -> "n" [] c = "G" -> "g"
      [] c = "M" -> "m" [] c = "D" -> "d" [] c = "A" -> "a"
      [] OTHER -> c

LowerStr(s) == [i \in 1..Len(s) |-> Lower(s[i])]

\* os.path.normcase: lower case where the separator is the backslash
normcase(s) == IF sep = "\\" THEN LowerStr(s) ELSE s

\* fnmatch(name, "*.md")
fnmatchMd(name) == EndsWith(normcase(name), <<".", "m", "d">>)

\* get_all_md_files: the documents of the tree that are markdown files
get_all_md_files ==
    SelectSeq([i \in 1..Len(docs) |-> i], LAMBDA i : fnmatchMd(docs[i].name))

-----------------------------------------------------------------------------
(* Path Cache: json.dump / json.load on the cache file                     *)

\* a file that does not exist
NoFile == [exists |-> FALSE, text |-> <<>>]

File(text) == [exists |-> TRUE, text |-> text]

\* one character that is a lone surrogate, as os.walk yields for the bytes
\* of a file name that are not UTF-8
SURR == "U+DCFF"

INDENT == <<" ", " ", " ", " ">>

\* the JSON string literal of s with ensure_ascii=False: only the quote,
\* the backslash and control characters are escaped
RECURSIVE EscapeChars(_)
EscapeChars(s) ==
    IF s = <<>> THEN <<>>
    ELSE (CASE Head(s) = "\"" -> <<"\\", "\"">>
            [] Head(s) = "\\" -> <<"\\", "\\">>
            [] Head(s) = NL -> <<"\\", "n">>
            [] OTHER -> <<Head(s)>>) \o EscapeChars(Tail(s))

EncodeString(s) == <<"\"">> \o EscapeChars(s) \o <<"\"">>

\* the chunks json.dump(d, f, indent=4, ensure_ascii=False) writes, in order
RECURSIVE ItemChunks(_, _)
ItemChunks(d, first) ==
    IF d = <<>> THEN <<>>
    ELSE (IF first THEN <<>> ELSE << <<",", NL>> \o INDENT >>)
         \o <<EncodeString(Head(d)[1]), <<":", " ">>, EncodeString(Head(d)[2])>>
         \o ItemChunks(Tail(d), FALSE)

DumpChunks(d) ==
    IF d = <<>> THEN << <<"{", "}">> >>
    ELSE << <<"{">>, <<NL>> \o INDENT >> \o ItemChunks(d, TRUE)
         \o << <<NL>>, <<"}">> >>

\* a chunk the UTF-8 encoder of the file accepts
Encodable(chunk) == \A i \in 1..Len(chunk) : chunk[i] # SURR

\* the chunks written before the first one the encoder refuses
RECURSIVE WrittenChunks(_)
WrittenChunks(chunks) ==
    IF chunks = <<>> \/ ~Encodable(Head(chunks)) THEN <<>>
    ELSE <<Head(chunks)>> \o WrittenChunks(Tail(chunks))

\* save_config: the file is opened for writing (truncated), the chunks are
\* written until one cannot be encoded (UnicodeEncodeError)
save_config(d) ==
    With(DumpChunks(d), LAMBDA chunks :
    With(WrittenChunks(chunks), LAMBDA done :
        [raised |-> Len(done) < Len(chunks), file |-> File(Flatten(done))]))

\* JSON whitespace, from position i on
RECURSIVE SkipWs(_, _)
SkipWs(s, i) ==
    IF i <= Len(s) /\ s[i] \in {" ", NL} THEN SkipWs(s, i + 1) ELSE i

NoParse == [ok |-> FALSE, val |-> <<>>, next |-> 0]

\* the characters of a string literal after its opening quote: the value and
\* the position after the closing quote. The escapes are those EscapeChars
\* writes and \/; a raw line break in a string is an error.
RECURSIVE ScanString(_, _, _)
ScanString(s, i, acc) ==
    IF i > Len(s) \/ s[i] = NL THEN NoParse
    ELSE IF s[i] = "\"" THEN [ok |-> TRUE, val |-> acc, next |-> i + 1]
    ELSE IF s[i] = "\\"
         THEN IF i + 1 > Len(s) THEN NoParse
              ELSE IF s[i + 1] \in {"\"", "\\", "/"}
                   THEN ScanString(s, i + 2, Append(acc, s[i + 1]))
              ELSE IF s[i + 1] = "n"
                   THEN ScanString(s, i + 2, Append(acc, NL))
              ELSE NoParse
    ELSE ScanString(s, i + 1, Append(acc, s[i]))

ParseString(s, i) ==
    IF i > Len(s) \/ s[i] # "\"" THEN NoParse
    ELSE ScanString(s, i + 1, <<>>)

\* what follows a member: "}" ends the object, "," announces the next one
RECURSIVE ParseMembers(_, _, _)
AfterMember(s, e, d) ==
    IF e > Len(s) THEN NoParse
    ELSE IF s[e] = "}" THEN [ok |-> TRUE, val |-> d, next |-> e + 1]
    ELSE IF s[e] = "," THEN ParseMembers(s, SkipWs(s, e + 1), d)
    ELSE NoParse

\* the members of an object from position i on: "key": "value" [, ...] }
ParseMembers(s, i, d) ==
    With(ParseString(s, i), LAMBDA k :
        IF ~k.ok THEN NoParse
        ELSE With(SkipWs(s, k.next), LAMBDA c :
            IF c > Len(s) \/ s[c] # ":" THEN NoParse
            ELSE With(ParseString(s, SkipWs(s, c + 1)), LAMBDA v :
                IF ~v.ok THEN NoParse
                ELSE AfterMember(s, SkipWs(s, v.next), Put(d, k.val, v.val)))))

\* json.load of a text holding an object of strings (what save_config
\* writes); anything else than such an object is a JSONDecodeError here
ParseObject(s) ==
    With(SkipWs(s, 1), LAMBDA i :
        IF i > Len(s) \/ s[i] # "{" THEN NoParse
        ELSE With(SkipWs(s, i + 1), LAMBDA j :
             With(IF j <= Len(s) /\ s[j] = "}"
                  THEN [ok |-> TRUE, val |-> <<>>, next |-> j + 1]
                  ELSE ParseMembers(s, j, <<>>), LAMBDA r :
                 IF r.ok /\ SkipWs(s, r.next) > Len(s) THEN r ELSE NoParse)))

\* load_config: {} for a missing or zero-length file, else the parsed
\* mapping or the parse error
load_config(file) ==
    IF ~file.exists \/ Len(file.text) = 0 THEN [raised |-> FALSE, config |-> <<>>]
    ELSE With(ParseObject(file.text), LAMBDA r :
             [raised |-> ~r.ok, config |-> r.val])

-----------------------------------------------------------------------------
(* Remote Upload Client                                                    *)

NoToken == <<>>

\* SMMSClient.upload without the duplicate branch
upload_no_duplicate(r) ==
    IF r.kind = "transport" THEN [raised |-> TRUE, url |-> <<>>]
    ELSE IF r.success = "true"
         THEN IF r.hasUrl THEN [raised |-> FALSE, url |-> r.url]
              ELSE [raised |-> TRUE, url |-> <<>>]
    ELSE [raised |-> TRUE, url |-> <<>>]

\* SMMSClient.upload, given the answer r of POST {endpoint}/upload: the
\* URL returned, or the Exception("Error uploading image: ...") raised.
\* A key the body lacks is a KeyError inside the try block.
upload(r) ==
    IF r.kind = "transport" THEN [raised |-> TRUE, url |-> <<>>]
    ELSE IF r.success = "absent" THEN [raised |-> TRUE, url |-> <<>>]
    ELSE IF r.success = "true"
         THEN IF r.hasUrl THEN [raised |-> FALSE, url |-> r.url]
              ELSE [raised |-> TRUE, url |-> <<>>]
    ELSE IF r.code = "absent" THEN [raised |-> TRUE, url |-> <<>>]
    ELSE IF r.code = "image_repeated"
         THEN IF r.hasImages THEN [raised |-> FALSE, url |-> r.images]
              ELSE [raised |-> TRUE, url |-> <<>>]
    ELSE [raised |-> TRUE, url |-> <<>>]


\* an answer of the remote service: a transport failure (or a body that is
\* not JSON), or a JSON body with the fields it holds
Transport ==
    [kind |-> "transport", success |-> "absent", code |-> "absent",
     hasUrl |-> FALSE, url |-> <<>>, hasImages |-> FALSE, images |-> <<>>,
     hasToken |-> FALSE, token |-> <<>>]

NoResp == [Transport EXCEPT !.kind = "none"]

Body(success, code, hasUrl, url, hasImages, images) ==
    [kind |-> "json", success |-> success, code |-> code,
     hasUrl |-> hasUrl, url |-> url, hasImages |-> hasImages, images |-> images,
     hasToken |-> FALSE, token |-> <<>>]

TokenBody(hasToken, tk) ==
    [Transport EXCEPT !.kind = "json", !.hasToken = hasToken, !.token = tk]

NoResult == [called |-> FALSE, raised |-> FALSE, url |-> <<>>]

Called(r) == [called |-> TRUE, raised |-> r.raised, url |-> r.url]

\* SMMSClient.__init__ (lines 92-98), given the answer of POST /token:
\* resp['data']['token'], or the exception that ends the process
authenticate(r) ==
    IF r.kind = "json" /\ r.hasToken THEN [raised |-> FALSE, token |-> r.token]
    ELSE [raised |-> TRUE, token |-> NoToken]

-----------------------------------------------------------------------------
(* Image Scanner                                                           *)

EXTENSIONS ==
    { <<".", "p", "n", "g">>, <<".", "j", "p", "g">>, <<".", "j", "p", "e", "g">>,
      <<".", "g", "i", "f">>, <<".", "b", "m", "p">>, <<".", "w", "e", "b", "p">> }

\* the extension test without lower()
IsImageNameCaseSensitive(fname) == \E e \in EXTENSIONS : EndsWith(fname, e)

\* fname.lower().endswith(('.png', '.jpg', '.jpeg', '.gif', '.bmp', '.webp'))
IsImageName(fname) == \E e \in EXTENSIONS : EndsWith(LowerStr(fname), e)

\* os.path.dirname of an absolute path; the root is its own parent
dirname(p) == IF p = <<>> THEN <<>> ELSE SubSeq(p, 1, Len(p) - 1)

\* the components joined by the separator c
RECURSIVE JoinPath(_, _)
JoinPath(comps, c) ==
    IF comps = <<>> THEN <<>>
    ELSE IF Len(comps) = 1 THEN Head(comps)
    ELSE Head(comps) \o <<c>> \o JoinPath(Tail(comps), c)

\* the length of the longest common prefix of two paths
CommonLen(p, q) ==
    CHOOSE n \in 0..Len(p) :
        /\ n <= Len(q)
        /\ SubSeq(p, 1, n) = SubSeq(q, 1, n)
        /\ \A m \in (n + 1)..Len(p) :
              m > Len(q) \/ SubSeq(p, 1, m) # SubSeq(q, 1, m)

\* os.path.relpath(path, start) on absolute, normalised paths
relpath(path, start) ==
    With(CommonLen(path, start), LAMBDA c :
    With([i \in 1..(Len(start) - c) |-> <<".", ".">>]
         \o SubSeq(path, c + 1, Len(path)), LAMBDA comps :
        IF comps = <<>> THEN <<".">> ELSE JoinPath(comps, sep)))

\* os.path.abspath(os.path.join(root, fname)) for a file of the walk
abs_path(f) == imgDir \o f.dir \o <<f.name>>

\* rel_path (line 42): the key of a file in the cache
rel_path(f) ==
    <<"/">> \o StrReplace(relpath(abs_path(f), dirname(imgDir)), <<"\\">>, <<"/">>)

\* a scanner that uploads whatever it finds
NeedsUploadAlways(cfg, f) == IsImageName(f.name)

\* lines 40-43: f is an image whose key the cache does not hold
NeedsUpload(cfg, f) == IsImageName(f.name) /\ ~Has(cfg, rel_path(f))


-----------------------------------------------------------------------------
(* Bounds and the inputs the behaviours are drawn from                     *)

MaxFiles == 2      \* files in the image tree
MaxDocs == 3       \* files in the document tree
MaxEntries == 2    \* entries of a mapping handed to save_config
MaxRuns == 2       \* runs of the command, and sync_images calls in one process
MaxCalls == 2      \* upload() calls on a client used alone

U_A == <<"h", "t", "t", "p", "s", ":", "/", "/", "h", "/", "A">>
U_B == <<"h", "t", "t", "p", "s", ":", "/", "/", "h", "/", "B">>
REMOTE == <<"h", "t", "t", "p", ":", "/", "/", "r", "/", "a", ".", "p", "n", "g">>
K_a == <<"/", "i", "/", "a", ".", "p", "n", "g">>
K_b == <<"/", "i", "/", "b", ".", "p", "n", "g">>
K_m == <<"/", "i", "/", "m", ".", "p", "n", "g">>
A_PNG == <<"a", ".", "p", "n", "g">>

Md(alt, target) == <<"!", "[">> \o alt \o <<"]", "(">> \o target \o <<")">>
ImgSingle(target) ==
    <<"<", "i", "m", "g", " ", "s", "r", "c", "=", "'">> \o target \o <<"'", ">">>
ImgDouble(target) ==
    <<"<", "i", "m", "g", " ", "a", "l", "t", "=", "\"", "x", "\"", " ",
      "s", "r", "c", " ", "=", " ", "\"">> \o target \o <<"\"", " ", ">">>

D_local == Md(<<"x">>, K_a) \o <<NL>>
D_remote == Md(<<"x">>, REMOTE) \o <<NL>>
D_overlap == Md(<<"x">>, A_PNG) \o <<" ">> \o Md(<<"y">>, K_a) \o <<NL>>
D_mixed == Md(<<"x">>, REMOTE) \o <<" ">> \o Md(<<"y">>, A_PNG) \o <<NL>>
D_late_miss == ImgSingle(K_a) \o <<NL>> \o Md(<<"x">>, K_m) \o <<NL>>
D_plain == <<"h", "i", NL>>
D_img == ImgDouble(K_b) \o <<" ">> \o Md(<<>>, K_a)
D_miss == Md(<<"x">>, K_m) \o <<NL>>

DocTexts ==
    {D_local, D_remote, D_overlap, D_mixed, D_late_miss, D_plain, D_img}

MD_NAME == <<"a", ".", "m", "d">>
MD_UPPER == <<"A", ".", "M", "D">>
TXT_NAME == <<"n", ".", "t", "x", "t">>

DocFiles ==
    {[name |-> MD_NAME, content |-> t] : t \in DocTexts}
    \cup {[name |-> TXT_NAME, content |-> D_local],
          [name |-> MD_UPPER, content |-> D_local]}

\* the sequences of at most n elements of S
SeqsUpTo(S, n) == UNION {[1..k -> S] : k \in 0..n}

Caches ==
    { <<>>,
      << <<K_a, U_A>> >>,
      << <<K_a, U_A>>, <<A_PNG, U_B>> >>,
      << <<K_b, U_B>>, <<K_a, U_A>>, <<K_m, U_A>>, <<A_PNG, U_B>> >> }

\* the files of an image tree
F_a == [dir |-> <<>>, name |-> A_PNG]
F_upper == [dir |-> << <<"s">> >>, name |-> <<"A", ".", "P", "N", "G">>]
F_txt == [dir |-> <<>>, name |-> TXT_NAME]
F_surr == [dir |-> <<>>, name |-> <<SURR, ".", "j", "p", "g">>]

TreeFiles == {F_a, F_upper, F_txt, F_surr}

Trees == {t \in SUBSET TreeFiles : Cardinality(t) <= MaxFiles}

ImgDirs == { << <<"w">>, <<"i">> >>, << <<"i">> >> }

Platforms == {"/", "\\"}

\* the cache file a process may find
CacheFiles ==
    { NoFile, File(<<>>), File(<<"{", "\"">>),
      File(Flatten(DumpChunks(<< <<K_a, U_B>> >>))),
      File(Flatten(DumpChunks(<< <<K_m, U_A>> >>))) }

\* the document trees of the runs of the command
CliDocs ==
    { <<>>,
      <<[name |-> MD_NAME, content |-> D_local]>>,
      <<[name |-> MD_NAME, content |-> D_local],
        [name |-> MD_NAME, content |-> D_miss]>> }

AuthResponses == {Transport, TokenBody(FALSE, <<>>), TokenBody(TRUE, <<"t", "k">>)}

\* the answers to an upload the command's runs are checked with
CliResponses ==
    { Transport,
      Body("true", "absent", TRUE, U_A, FALSE, <<>>),
      Body("false", "image_repeated", FALSE, <<>>, TRUE, U_B),
      Body("false", "other", FALSE, <<>>, FALSE, <<>>) }

\* every shape of answer to an upload
UploadResponses ==
    {Transport} \cup
    { Body(s, c, u # <<>>, u, i # <<>>, i) :
        s \in {"true", "false", "absent"},
        c \in {"image_repeated", "other", "absent"},
        u \in {<<>>, U_A, U_B}, i \in {<<>>, U_A, U_B} }

\* the strings of the mappings save_config is checked with
CacheKeys ==
    { K_a, <<"q", "\"">>, <<"\\", "n">>, <<"l", NL>>, <<SURR, ".", "j", "p", "g">> }
CacheValues == {U_A, <<>>, <<"\"", "\\">>}

Mappings ==
    { d \in SeqsUpTo(CacheKeys \X CacheValues, MaxEntries) :
        \A i, j \in 1..Len(d) : i # j => d[i][1] # d[j][1] }


-----------------------------------------------------------------------------
(* The command (lines 120-139) and the calls of the API                    *)

\* a client that authenticates on its first upload, not when constructed
SMMSClient_init_lazy ==
    /\ pc = "start"
    /\ pc' = "client"
    /\ UNCHANGED <<err, sep, imgDir, tree, todo, cfgFile, config, docs, idx,
                   token, resp, result, auths, uploads, run, syncs, notices,
                   fileAtStart, docsAtStart, scanned, pending, prevCache,
                   lastCache, saved>>

\* SMMSClient(endpoint, username, password): the argument of line 134 is
\* evaluated, and POST /token sent, before ImageMarkdownSync is constructed
SMMSClient_init ==
    /\ pc = "start"
    /\ \E r \in AuthResponses : \E a \in {authenticate(r)} :
          /\ resp' = r
          /\ auths' = auths + 1
          /\ token' = a.token
          /\ pc' = IF a.raised THEN "fatal" ELSE "client"
          /\ err' = IF a.raised THEN "auth" ELSE err
    /\ UNCHANGED <<sep, imgDir, tree, todo, cfgFile, config, docs, idx, result,
                   uploads, run, syncs, notices, fileAtStart, docsAtStart,
                   scanned, pending, prevCache, lastCache, saved>>

\* ImageMarkdownSync.__init__: load_config; line 138 then calls sync_images
ImageMarkdownSync_init ==
    /\ pc = "client"
    /\ \E r \in {load_config(cfgFile)} :
          /\ config' = r.config
          /\ pc' = IF r.raised THEN "fatal" ELSE "sync"
          /\ err' = IF r.raised THEN "parse" ELSE err
          /\ todo' = IF r.raised THEN todo ELSE tree
    /\ UNCHANGED <<sep, imgDir, tree, cfgFile, docs, idx, token, resp, result,
                   auths, uploads, run, syncs, notices, fileAtStart,
                   docsAtStart, scanned, pending, prevCache, lastCache, saved>>

\* sync_images, a file of the walk that needs no upload (lines 40, 43)
sync_images_skip ==
    /\ pc = "sync"
    /\ \E f \in todo :
          /\ ~NeedsUpload(config, f)
          /\ todo' = todo \ {f}
    /\ UNCHANGED <<pc, err, sep, imgDir, tree, cfgFile, config, docs, idx,
                   token, resp, result, auths, uploads, run, syncs, notices,
                   fileAtStart, docsAtStart, scanned, pending, prevCache,
                   lastCache, saved>>

\* a scanner that persists the cache after every upload
sync_images_upload_eager_save ==
    /\ pc = "sync"
    /\ \E f \in todo, r \in CliResponses : \E u \in {upload(r)} :
          /\ NeedsUpload(config, f)
          /\ resp' = r
          /\ result' = Called(u)
          /\ uploads' = uploads + 1
          /\ IF u.raised
             THEN /\ pc' = "fatal"
                  /\ err' = "upload"
                  /\ UNCHANGED <<config, todo, pending, cfgFile>>
             ELSE /\ config' = Put(config, rel_path(f), u.url)
                  /\ cfgFile' = save_config(Put(config, rel_path(f), u.url)).file
                  /\ pending' = pending \cup {rel_path(f)}
                  /\ todo' = todo \ {f}
                  /\ UNCHANGED <<pc, err>>
    /\ UNCHANGED <<sep, imgDir, tree, docs, idx, token, auths, run, syncs,
                   notices, fileAtStart, docsAtStart, scanned, prevCache,
                   lastCache, saved>>

\* sync_images, a file of the walk that is uploaded (lines 44-45): the
\* exception of upload() leaves sync_images, and the process, at once
sync_images_upload ==
    /\ pc = "sync"
    /\ \E f \in todo, r \in CliResponses : \E u \in {upload(r)} :
          /\ NeedsUpload(config, f)
          /\ resp' = r
          /\ result' = Called(u)
          /\ uploads' = uploads + 1
          /\ IF u.raised
             THEN /\ pc' = "fatal"
                  /\ err' = "upload"
                  /\ UNCHANGED <<config, todo, pending>>
             ELSE /\ config' = Put(config, rel_path(f), u.url)
                  /\ pending' = pending \cup {rel_path(f)}
                  /\ todo' = todo \ {f}
                  /\ UNCHANGED <<pc, err>>
    /\ UNCHANGED <<sep, imgDir, tree, cfgFile, docs, idx, token, auths, run,
                   syncs, notices, fileAtStart, docsAtStart, scanned,
                   prevCache, lastCache, saved>>

\* sync_images after the walk (lines 46-47): save_config, then load_config
sync_images_finish ==
    /\ pc = "sync"
    /\ todo = {}
    /\ \E w \in {save_config(config)} : \E r \in {load_config(w.file)} :
          /\ cfgFile' = w.file
          /\ saved' = config
          /\ scanned' = scanned \cup pending
          /\ IF w.raised \/ r.raised
             THEN /\ pc' = "fatal"
                  /\ err' = IF w.raised THEN "encode" ELSE "parse"
                  /\ UNCHANGED <<config, syncs, prevCache, lastCache>>
             ELSE /\ pc' = "synced"
                  /\ config' = r.config
                  /\ syncs' = syncs + 1
                  /\ prevCache' = lastCache
                  /\ lastCache' = r.config
                  /\ UNCHANGED err
    /\ UNCHANGED <<sep, imgDir, tree, todo, docs, idx, token, resp, result,
                   auths, uploads, run, notices, fileAtStart, docsAtStart,
                   pending>>

\* sync_images called once more on the same object
sync_images_again ==
    /\ pc = "synced"
    /\ syncs < MaxRuns
    /\ pc' = "sync"
    /\ todo' = tree
    /\ uploads' = 0
    /\ pending' = {}
    /\ fileAtStart' = cfgFile
    /\ UNCHANGED <<err, sep, imgDir, tree, cfgFile, config, docs, idx, token,
                   resp, result, auths, run, syncs, notices, docsAtStart,
                   scanned, prevCache, lastCache, saved>>

\* a batch that isolates failures: a document that fails is skipped
replace_all_md_images_isolated ==
    /\ pc \in {"synced", "rewrite"}
    /\ \E md_files \in {get_all_md_files} :
          /\ idx <= Len(md_files)
          /\ \E r \in {replace_img_urls_in_md(docs[md_files[idx]].content, config)} :
                /\ docs' = [docs EXCEPT ![md_files[idx]].content = r.file]
                /\ notices' = IF r.replace THEN notices \cup {md_files[idx]}
                              ELSE notices
                /\ err' = IF r.raised THEN "missing" ELSE err
                /\ idx' = idx + 1
                /\ pc' = IF ~r.raised /\ err = "none" /\ idx = Len(md_files)
                         THEN "done" ELSE "rewrite"
    /\ UNCHANGED <<sep, imgDir, tree, todo, cfgFile, config, token, resp,
                   result, auths, uploads, run, syncs, fileAtStart,
                   docsAtStart, scanned, pending, prevCache, lastCache, saved>>

\* replace_all_md_images (line 139), one document per step: the ValueError
\* of a document ends the process
replace_all_md_images ==
    /\ pc \in {"synced", "rewrite"}
    /\ \E md_files \in {get_all_md_files} :
          /\ idx <= Len(md_files)
          /\ \E r \in {replace_img_urls_in_md(docs[md_files[idx]].content, config)} :
                /\ docs' = [docs EXCEPT ![md_files[idx]].content = r.file]
                /\ notices' = IF r.replace THEN notices \cup {md_files[idx]}
                              ELSE notices
                /\ err' = IF r.raised THEN "missing" ELSE err
                /\ idx' = IF r.raised THEN idx ELSE idx + 1
                /\ pc' = IF r.raised THEN "fatal"
                         ELSE IF idx = Len(md_files) THEN "done"
                         ELSE "rewrite"
    /\ UNCHANGED <<sep, imgDir, tree, todo, cfgFile, config, token, resp,
                   result, auths, uploads, run, syncs, fileAtStart,
                   docsAtStart, scanned, pending, prevCache, lastCache, saved>>

\* replace_all_md_images over a tree without markdown files
replace_all_md_images_none ==
    /\ pc = "synced"
    /\ Len(get_all_md_files) = 0
    /\ pc' = "done"
    /\ UNCHANGED <<err, sep, imgDir, tree, todo, cfgFile, config, docs, idx,
                   token, resp, result, auths, uploads, run, syncs, notices,
                   fileAtStart, docsAtStart, scanned, pending, prevCache,
                   lastCache, saved>>

\* the command run again: a new process, the files as the last one left them
Restart ==
    /\ pc \in {"done", "fatal"}
    /\ run < MaxRuns
    /\ run' = run + 1
    /\ pc' = "start"
    /\ err' = "none"
    /\ todo' = {}
    /\ config' = <<>>
    /\ idx' = 1
    /\ token' = NoToken
    /\ resp' = NoResp
    /\ result' = NoResult
    /\ auths' = 0
    /\ uploads' = 0
    /\ notices' = {}
    /\ pending' = {}
    /\ fileAtStart' = cfgFile
    /\ docsAtStart' = docs
    /\ UNCHANGED <<sep, imgDir, tree, cfgFile, docs, syncs, scanned, prevCache,
                   lastCache, saved>>

\* upload(image_path) called on a constructed client
call_upload ==
    /\ pc = "client"
    /\ uploads < MaxCalls
    /\ \E r \in UploadResponses :
          /\ resp' = r
          /\ result' = Called(upload(r))
    /\ uploads' = uploads + 1
    /\ UNCHANGED <<pc, err, sep, imgDir, tree, todo, cfgFile, config, docs, idx,
                   token, auths, run, syncs, notices, fileAtStart,
                   docsAtStart, scanned, pending, prevCache, lastCache, saved>>

\* save_config() called with self.config set to a mapping
call_save_config ==
    /\ pc = "cache"
    /\ \E w \in {save_config(config)} :
          /\ cfgFile' = w.file
          /\ saved' = config
          /\ err' = IF w.raised THEN "encode" ELSE err
          /\ pc' = "saved"
    /\ UNCHANGED <<sep, imgDir, tree, todo, config, docs, idx, token, resp,
                   result, auths, uploads, run, syncs, notices, fileAtStart,
                   docsAtStart, scanned, pending, prevCache, lastCache>>

\* self.config = load_config() after it
call_load_config ==
    /\ pc = "saved"
    /\ \E r \in {load_config(cfgFile)} :
          /\ config' = r.config
          /\ err' = IF r.raised /\ err = "none" THEN "parse" ELSE err
          /\ pc' = "loaded"
    /\ UNCHANGED <<sep, imgDir, tree, todo, cfgFile, docs, idx, token, resp,
                   result, auths, uploads, run, syncs, notices, fileAtStart,
                   docsAtStart, scanned, pending, prevCache, lastCache, saved>>

-----------------------------------------------------------------------------
(* Specifications                                                          *)

\* what every behaviour starts from, whatever it exercises
Fresh ==
    /\ err = "none"
    /\ todo = {}
    /\ idx = 1
    /\ token = NoToken
    /\ resp = NoResp
    /\ result = NoResult
    /\ auths = 0
    /\ uploads = 0
    /\ run = 1
    /\ syncs = 0
    /\ notices = {}
    /\ scanned = Keys(load_config(cfgFile).config)
    /\ pending = {}
    /\ prevCache = <<>>
    /\ lastCache = <<>>
    /\ saved = <<>>
    /\ fileAtStart = cfgFile
    /\ docsAtStart = docs

\* the command: python sync_imgs.py --dir ... --pic ...
Init ==
    /\ pc = "start"
    /\ sep \in Platforms
    /\ imgDir \in ImgDirs
    /\ tree \in Trees
    /\ cfgFile \in CacheFiles
    /\ config = <<>>
    /\ docs \in CliDocs
    /\ Fresh

Next ==
    \/ SMMSClient_init
    \/ ImageMarkdownSync_init
    \/ sync_images_skip
    \/ sync_images_upload
    \/ sync_images_finish
    \/ sync_images_again
    \/ replace_all_md_images
    \/ replace_all_md_images_none
    \/ Restart

Spec == Init /\ [][Next]_vars

\* the rewriter alone, on any cache and document tree
InitRewrite ==
    /\ pc = "synced"
    /\ sep \in Platforms
    /\ imgDir = << <<"i">> >>
    /\ tree = {}
    /\ cfgFile = NoFile
    /\ config \in Caches
    /\ docs \in SeqsUpTo(DocFiles, MaxDocs)
    /\ Fresh

NextRewrite == replace_all_md_images \/ replace_all_md_images_none

SpecRewrite == InitRewrite /\ [][NextRewrite]_vars

\* the client alone
InitUpload ==
    /\ pc = "start"
    /\ sep = "/"
    /\ imgDir = << <<"i">> >>
    /\ tree = {}
    /\ cfgFile = NoFile
    /\ config = <<>>
    /\ docs = <<>>
    /\ Fresh

NextUpload == SMMSClient_init \/ call_upload

SpecUpload == InitUpload /\ [][NextUpload]_vars

\* the cache alone: save_config then load_config on any mapping
InitCache ==
    /\ pc = "cache"
    /\ sep = "/"
    /\ imgDir = << <<"i">> >>
    /\ tree = {}
    /\ cfgFile \in {NoFile, File(<<"{", "\"">>)}
    /\ config \in Mappings
    /\ docs = <<>>
    /\ Fresh

NextCache == call_save_config \/ call_load_config

SpecCache == InitCache /\ [][NextCache]_vars

-----------------------------------------------------------------------------
(* Properties                                                              *)

\* the markdown files replace_all_md_images has rewritten so far
Processed ==
    {get_all_md_files[k] : k \in 1..(IF idx - 1 < Len(get_all_md_files)
                                     THEN idx - 1 ELSE Len(get_all_md_files))}

\* a capture that is a local reference: not empty, not starting with http
IsLocal(url) == url # <<>> /\ ~StartsWith(url, HTTP)

\* line with the capture of every local reference, and nothing else,
\* replaced by its cached URL
RECURSIVE Substitute(_, _, _, _)
Substitute(line, ms, pos, cfg) ==
    IF ms = <<>> THEN SubSeq(line, pos, Len(line))
    ELSE LET m == Head(ms)
             url == SubSeq(line, m.from, m.to)
         IN  SubSeq(line, pos, m.from - 1)
             \o (IF IsLocal(url) THEN Get(cfg, url) ELSE url)
             \o Substitute(line, Tail(ms), m.to + 1, cfg)

ExpectedLine(line, cfg) == Substitute(line, Matches(line, 1), 1, cfg)

ExpectedText(text, cfg) ==
    LET lines == ReadLines(text)
    IN  Flatten([i \in 1..Len(lines) |-> ExpectedLine(lines[i], cfg)])

\* C1: in every document rewritten without error, each line is the original
\* line with the target of each local reference replaced by its cached URL
\* and all other text unchanged.
C1_RewriteExact ==
    \A i \in Processed :
        docs[i].content = ExpectedText(docsAtStart[i].content, config)

\* the text of the k-th reference of a line
RefText(line, k) ==
    LET m == Matches(line, 1)[k] IN SubSeq(line, m.start, m.end)

\* C2: in every document rewritten without error, each reference whose
\* target begins with http is, after the rewrite, character for character
\* what it was before.
C2_HttpUntouched ==
    \A i \in Processed :
        LET old == ReadLines(docsAtStart[i].content)
            new == ReadLines(docs[i].content)
        IN  /\ Len(new) = Len(old)
            /\ \A l \in 1..Len(old) :
                  LET ms == Matches(old[l], 1)
                  IN  \A k \in 1..Len(ms) :
                         StartsWith(SubSeq(old[l], ms[k].from, ms[k].to), HTTP)
                         => /\ k <= Len(Matches(new[l], 1))
                            /\ RefText(new[l], k) = RefText(old[l], k)

\* text holds a local reference whose target the cache lacks
HasMissingTarget(text, cfg) ==
    \E l \in 1..Len(ReadLines(text)) :
        LET urls == findall(ReadLines(text)[l])
        IN  \E k \in 1..Len(urls) : IsLocal(urls[k]) /\ ~Has(cfg, urls[k])

\* the document replace_all_md_images stopped at
FailedDoc == get_all_md_files[idx]

\* C3: a document with a local target absent from the cache is never
\* rewritten: the rewrite fails with the missing-entry error and the file
\* keeps its content, whatever was found in the cache before the target.
C3_MissingLeavesFile ==
    /\ \A i \in Processed : ~HasMissingTarget(docsAtStart[i].content, config)
    /\ err = "missing" =>
          /\ HasMissingTarget(docsAtStart[FailedDoc].content, config)
          /\ docs[FailedDoc].content = docsAtStart[FailedDoc].content

\* the rewrite failed on a target of the second line, after a target of the
\* first line was found in the cache
C3_Witness ==
    /\ err = "missing"
    /\ docsAtStart[FailedDoc].content = D_late_miss
    /\ Has(config, K_a)

\* C7: after a failure the batch is over: the failing document and those
\* listed after it have their original content, those listed before it
\* stay rewritten, and no step follows.
C7_FailureAborts ==
    err = "missing" =>
        /\ pc = "fatal"
        /\ ~ENABLED NextRewrite
        /\ \A k \in 1..Len(get_all_md_files) :
              LET f == get_all_md_files[k]
              IN  IF k >= idx
                  THEN docs[f].content = docsAtStart[f].content
                  ELSE /\ ~replace_img_urls_in_md(docsAtStart[f].content, config).raised
                       /\ docs[f].content =
                            replace_img_urls_in_md(docsAtStart[f].content, config).file

\* the second of three documents failed: the first was changed by its
\* rewrite, the third would have been
C7_Witness ==
    /\ err = "missing"
    /\ idx = 2
    /\ Len(get_all_md_files) = 3
    /\ docs[get_all_md_files[1]].content # docsAtStart[get_all_md_files[1]].content
    /\ docs[get_all_md_files[3]].content = D_local
    /\ Has(config, K_a)

\* sync_images has returned: the command rewrites, or is done rewriting
SyncCompleted ==
    pc \in {"synced", "rewrite", "done"} \/ (pc = "fatal" /\ err = "missing")

\* the name has one of the six extensions, in any case
HasImageExtension(name) ==
    \E k \in 1..Len(name) :
        /\ name[k] = "."
        /\ \A j \in (k + 1)..Len(name) : name[j] # "."
        /\ LowerStr(SubSeq(name, k + 1, Len(name))) \in
              { <<"p", "n", "g">>, <<"j", "p", "g">>, <<"j", "p", "e", "g">>,
                <<"g", "i", "f">>, <<"b", "m", "p">>, <<"w", "e", "b", "p">> }

\* '/' and the forward-slash path of f relative to the parent of the root
ExpectedKey(f) ==
    <<"/">> \o JoinPath(<<imgDir[Len(imgDir)]>> \o f.dir \o <<f.name>>, "/")

\* the mapping the cache file holds
OnDisk == load_config(cfgFile).config

\* C4: once sync_images has completed, the cache in memory and the cache
\* file hold a key for every file of the tree with an image extension.
C4_EveryImageCached ==
    SyncCompleted =>
        \A f \in tree :
            HasImageExtension(f.name) =>
                Has(config, ExpectedKey(f)) /\ Has(OnDisk, ExpectedKey(f))

\* a file with an upper-case extension in a subdirectory was uploaded where
\* the separator is the backslash
C4_Witness ==
    /\ pc = "synced"
    /\ sep = "\\"
    /\ F_upper \in tree
    /\ ExpectedKey(F_upper) \in pending

\* C5: a sync_images call that follows a completed one, in the same
\* process or in a later one, uploads nothing and ends with the same cache.
C5_SecondSyncIdle ==
    (pc = "synced" /\ syncs >= 2) =>
        /\ uploads = 0
        /\ SameDict(config, prevCache)
        /\ SameDict(OnDisk, prevCache)

\* the second run of the command has synced a tree the first one uploaded
C5_Witness ==
    /\ pc = "synced"
    /\ syncs = 2
    /\ run = 2
    /\ uploads = 0
    /\ \E f \in tree : IsImageName(f.name) /\ Has(config, rel_path(f))

\* the answer is the duplicate-content signal, with the URL it announces
IsDuplicate(r) ==
    /\ r.kind = "json"
    /\ r.success = "false"
    /\ r.code = "image_repeated"
    /\ r.hasImages

\* the answer is a failure other than the duplicate-content signal
IsOtherFailure(r) ==
    \/ r.kind = "transport"
    \/ /\ r.success # "true"
       /\ ~(r.success = "false" /\ r.code = "image_repeated")

\* C6: upload returns the URL of the images field on the duplicate-content
\* signal, and raises on any other failure.
C6_DuplicateReturnsUrl ==
    result.called =>
        /\ IsDuplicate(resp) => ~result.raised /\ result.url = resp.images
        /\ IsOtherFailure(resp) => result.raised

C6_Witness ==
    /\ result.called
    /\ IsDuplicate(resp)
    /\ result.url = U_B
    /\ ~result.raised

\* C8: save_config followed by load_config yields the mapping saved.
C8_RoundTrip ==
    pc = "loaded" => err = "none" /\ SameDict(config, saved)

\* the round trip of the mappings whose strings UTF-8 can encode
RoundTripEncodable ==
    (pc = "loaded" /\ \A i \in 1..Len(saved) : Encodable(saved[i][1]))
        => err = "none" /\ SameDict(config, saved)

\* C9: a malformed cache file ends the run before any work: no
\* authentication exchange, no upload, no file written.
C9_NoWorkBeforeParseError ==
    (pc = "fatal" /\ err = "parse") =>
        /\ auths = 0
        /\ ~result.called
        /\ cfgFile = fileAtStart
        /\ docs = docsAtStart

\* C9 as amended: a malformed cache file ends the run after the
\* authentication exchange, which constructing the client sent, and before
\* any upload and any write to the cache file or to a document.
C9_OnlyAuthBeforeParseError ==
    (pc = "fatal" /\ err = "parse") =>
        /\ auths = 1
        /\ token # NoToken
        /\ ~result.called
        /\ uploads = 0
        /\ cfgFile = fileAtStart
        /\ docs = docsAtStart

C9_Witness ==
    /\ pc = "fatal"
    /\ err = "parse"
    /\ cfgFile = File(<<"{", "\"">>)
    /\ Len(docs) > 0

\* C10: a failed upload ends the run with the cache file and the documents
\* as they were, and the cache file never holds a key other than those it
\* started with and those uploaded by a sync_images whose walk completed.
C10_FailedUploadPersistsNothing ==
    /\ err = "upload" => cfgFile = fileAtStart /\ docs = docsAtStart
    /\ Keys(OnDisk) \subseteq scanned

\* an upload failed after another one of the same walk had succeeded
C10_Witness ==
    /\ err = "upload"
    /\ pending # {}
    /\ Len(docs) > 0

=============================================================================
